---- MODULE Spec2Model ----
(***************************************************************************)
(* Order lifecycle of the NutriConnect order service: the in-memory order  *)
(* store (models/Order.js), the meal and student lookup tables, the        *)
(* OrderService operations and the request validation in front of them.    *)
(* Payment service: the POST /process route, PaymentService and the mock   *)
(* PayDPI gateway client with its payments and refunds.                    *)
(* Every action is one request handled to completion, except in SpecRace,  *)
(* where createOrder calls are cut at their await points.                  *)
(***************************************************************************)
EXTENDS Integers, Sequences, FiniteSets, TLC

(* ------------------------------ bounds --------------------------------- *)
MaxOrders  == 2      \* orders ever stored
MaxUpdates == 1      \* status updates applied in Spec
MaxHistory == 2      \* status updates applied in SpecStore
MaxDay     == 1      \* last calendar day the clock reaches; days are 0..MaxDay
MaxCalls   == 2      \* createOrder calls ever started in SpecRace
MaxPayments == 1     \* payments ever stored by the gateway
MaxTicks   == 6      \* times the gateway clock is advanced
MaxRefunds == 2      \* refunds ever stored by the gateway
MaxStockOrders == 5  \* orders ever stored in SpecStock
MaxStockDay    == 4  \* last day an order is scheduled for in SpecStock

(* --------------------------- program constants ------------------------- *)
InitialCounter == 1000
MaxQuantityPerOrder == 10

\* An order id is "ORD" ++ counter ++ the last four digits of the clock; the
\* counter part alone identifies the order, and the id is modelled by it.
NoId    == 0                 \* "no order" in a response
GhostId == 999               \* an order id that was never issued

Missing == -1                \* scheduledDate absent from the body
Garbage == -2                \* scheduledDate present but not parseable

MealTable ==
  [meal_001 |-> [price |-> 50, subsidyAmount |-> 30, available |-> TRUE,
                 currentQuantity |-> 95],
   meal_002 |-> [price |-> 80, subsidyAmount |-> 20, available |-> TRUE,
                 currentQuantity |-> 48]]

StudentTable ==
  [student123 |-> [school |-> "Royal College", subsidyEligible |-> TRUE],
   student124 |-> [school |-> "Royal College", subsidyEligible |-> TRUE]]


OrderStatuses == {"PENDING", "CONFIRMED", "PREPARING", "READY", "DELIVERED",
                  "CANCELLED"}
validStatuses == {"CONFIRMED", "PREPARING", "READY", "DELIVERED"}
StaffRoles    == {"SCHOOL_STAFF", "ADMIN"}

(* ------------------------------ inputs --------------------------------- *)
\* calls made on the service layer
StudentInputs  == {"student123", "student124", "student999"}
StaffInputs    == {"staff001"}
MealInputs     == {"meal_001", "meal_999"}
DateInputs     == 0..MaxDay
Quantities     == {10}
StatusInputs   == {"", "BOGUS"} \cup validStatuses
StoreStaffInputs == {"staff001", "admin001"}
PaymentStatusInputs == {"PAID"}
PaymentInfoInputs   == { [paymentId |-> "PAY5000", status |-> "PENDING"] }
\* request bodies sent to the router
BodyMealInputs == {"", "meal_001", "meal_999"}
BodyDateInputs == {Missing, Garbage} \cup (0..MaxDay)
BodyQuantityInputs == { [present |-> FALSE, v |-> 0] } \cup
                      { [present |-> TRUE, v |-> q] : q \in {0, 1, 10, 11} }
BodyStatusInputs == {"", "PENDING", "CANCELLED"} \cup validStatuses
\* req.user as a token decoder may attach it; NoUser is a request without one
NoUser == [id |-> "", role |-> ""]
RequestUsers == { NoUser,
                  [id |-> "student123", role |-> "STUDENT"],
                  [id |-> "parent001",  role |-> "PARENT"],
                  [id |-> "staff001",   role |-> "SCHOOL_STAFF"],
                  [id |-> "admin001",   role |-> "ADMIN"] }

VARIABLES
  orders,     \* Order.orders: the stored orders, in insertion order
  counter,    \* Order.counter
  meals,      \* MealService.meals
  today,      \* the calendar day of the wall clock
  updates,    \* number of store updates applied so far (bounds the run)
  issued,     \* ids returned by successful createOrder calls
  cancels,    \* ids of the orders a cancelOrder call has cancelled
  rt,         \* the latest created order, the availability before it, and
              \* its round trip: "open" until a cancellation touches the meal,
              \* then "closed" (its own cancellation) or "spoiled" (another's)
  last,       \* the latest request and its response
  calls,      \* createOrder calls in flight, each with its position and locals
  payments,   \* PayDPIClient.payments, in insertion order
  paymentCounter, \* PayDPIClient.paymentCounter
  clock,      \* the wall clock of the payment gateway, in seconds
  ticks,      \* number of times the clock has advanced (bounds the run)
  firstPoll,  \* for each polled payment, the first getPaymentStatus answer
  plast,      \* the latest gateway request and its response
  refunds,    \* PayDPIClient.refunds, in insertion order
  refundCounter   \* PayDPIClient.refundCounter

raceVars == <<calls>>
payVars  == <<payments, paymentCounter, clock, ticks, firstPoll, plast,
              refunds, refundCounter>>

vars == <<orders, counter, meals, today, updates, issued, cancels, rt, last,
          raceVars, payVars>>

(* ----------------------------- Order model ----------------------------- *)

\* Array.prototype.findIndex on the id; 0 stands for -1
findIndex(os, orderId) ==
  IF \E i \in 1..Len(os) : os[i].id = orderId
  THEN CHOOSE i \in 1..Len(os) :
         /\ os[i].id = orderId
         /\ \A j \in 1..(i-1) : os[j].id # orderId
  ELSE 0

findById(os, orderId) == findIndex(os, orderId)

\* variant: the status filter is left out of the lookup
findExistingOrder_anyStatus(os, studentId, scheduledDate) ==
  IF \E i \in 1..Len(os) : /\ os[i].studentId = studentId
                           /\ os[i].scheduledDate = scheduledDate
  THEN CHOOSE i \in 1..Len(os) :
         /\ os[i].studentId = studentId
         /\ os[i].scheduledDate = scheduledDate
  ELSE 0

findExistingOrder(os, studentId, scheduledDate) ==
  IF \E i \in 1..Len(os) : /\ os[i].studentId = studentId
                           /\ os[i].scheduledDate = scheduledDate
                           /\ os[i].status # "CANCELLED"
  THEN CHOOSE i \in 1..Len(os) :
         /\ os[i].studentId = studentId
         /\ os[i].scheduledDate = scheduledDate
         /\ os[i].status # "CANCELLED"
         /\ \A j \in 1..(i-1) : ~ ( /\ os[j].studentId = studentId
                                    /\ os[j].scheduledDate = scheduledDate
                                    /\ os[j].status # "CANCELLED" )
  ELSE 0

create(os, ctr, orderData) ==
  Append(os,
    [ id            |-> ctr,
      studentId     |-> orderData.studentId,
      mealId        |-> orderData.mealId,
      scheduledDate |-> orderData.scheduledDate,
      quantity      |-> orderData.quantity,
      totalAmount   |-> orderData.totalAmount,
      subsidyAmount |-> orderData.subsidyAmount,
      finalAmount   |-> orderData.finalAmount,
      status        |-> "PENDING",
      paymentStatus |-> IF orderData.finalAmount > 0 THEN "PENDING" ELSE "PAID",
      paymentId     |-> "null",
      statusHistory |-> << >> ])

\* variant: cancelling removes the record from the store
cancel_delete(os, orderId) ==
  SelectSeq(os, LAMBDA o : o.id # orderId)

cancel(os, orderId) ==
  LET i == findIndex(os, orderId) IN
  IF i = 0 THEN os
  ELSE [os EXCEPT ![i].status = "CANCELLED"]

\* variant: the status is overwritten but no history entry is written
updateStatus_noAppend(os, orderId, status, staffId) ==
  LET i == findIndex(os, orderId) IN
  IF i = 0 THEN os
  ELSE [os EXCEPT ![i].status = status]

\* variant: the history is rebuilt from the new entry alone
updateStatus_replaceHistory(os, orderId, status, staffId) ==
  LET i == findIndex(os, orderId) IN
  IF i = 0 THEN os
  ELSE [os EXCEPT ![i].status = status,
                  ![i].statusHistory =
                     << [status |-> status, staffId |-> staffId] >>]

\* variant: a DELIVERED or CANCELLED order is final and is left as it is
updateStatus_finalStates(os, orderId, status, staffId) ==
  LET i == findIndex(os, orderId) IN
  IF i = 0 \/ os[i].status \in {"DELIVERED", "CANCELLED"} THEN os
  ELSE [os EXCEPT ![i].status = status,
                  ![i].statusHistory =
                     Append(@, [status |-> status, staffId |-> staffId])]

updateStatus(os, orderId, status, staffId) ==
  LET i == findIndex(os, orderId) IN
  IF i = 0 THEN os
  ELSE [os EXCEPT ![i].status = status,
                  ![i].statusHistory =
                     Append(@, [status |-> status, staffId |-> staffId])]

updatePaymentStatus(os, orderId, paymentStatus) ==
  LET i == findIndex(os, orderId) IN
  IF i = 0 THEN os
  ELSE [os EXCEPT ![i].paymentStatus = paymentStatus]

updatePaymentInfo(os, orderId, paymentInfo) ==
  LET i == findIndex(os, orderId) IN
  IF i = 0 THEN os
  ELSE [os EXCEPT ![i].paymentId = paymentInfo.paymentId,
                  ![i].paymentStatus = paymentInfo.status]

(* ------------------------ Meal and student services -------------------- *)

getMealById(ms, mealId) == mealId \in DOMAIN ms

getStudentById(studentId) == studentId \in DOMAIN StudentTable

\* variant: the quantity never goes below zero
updateAvailability_floor(ms, mealId, quantity) ==
  IF mealId \in DOMAIN ms
  THEN [ms EXCEPT ![mealId].currentQuantity =
                     IF @ - quantity < 0 THEN 0 ELSE @ - quantity]
  ELSE ms

updateAvailability(ms, mealId, quantity) ==
  IF mealId \in DOMAIN ms
  THEN [ms EXCEPT ![mealId].currentQuantity = @ - quantity]
  ELSE ms

\* variant: one unit is restored whatever the order's quantity
restoreAvailability_one(ms, mealId, quantity) ==
  IF mealId \in DOMAIN ms
  THEN [ms EXCEPT ![mealId].currentQuantity = @ + 1]
  ELSE ms

restoreAvailability(ms, mealId, quantity) ==
  IF mealId \in DOMAIN ms
  THEN [ms EXCEPT ![mealId].currentQuantity = @ + quantity]
  ELSE ms

(* ------------------------------ middleware ----------------------------- *)

\* variant: the upper limit on the quantity is not checked
validateOrderRequest_noMax(mealId, scheduledDate, quantity) ==
  LET falsyQty == (~ quantity.present) \/ quantity.v = 0
      e1 == IF mealId = "" THEN {"Meal ID is required"} ELSE {}
      e2 == IF scheduledDate = Missing
            THEN {"Scheduled date is required"} ELSE {}
      e3 == IF falsyQty \/ quantity.v < 1
            THEN {"Valid quantity is required"} ELSE {}
      e4 == IF scheduledDate # Missing /\ scheduledDate = Garbage
            THEN {"Invalid date format"} ELSE {}
  IN  e1 \cup e2 \cup e3 \cup e4

\* the list of validation messages; the request passes when it is empty
validateOrderRequest(mealId, scheduledDate, quantity) ==
  LET falsyQty == (~ quantity.present) \/ quantity.v = 0
      e1 == IF mealId = "" THEN {"Meal ID is required"} ELSE {}
      e2 == IF scheduledDate = Missing
            THEN {"Scheduled date is required"} ELSE {}
      e3 == IF falsyQty \/ quantity.v < 1
            THEN {"Valid quantity is required"} ELSE {}
      e4 == IF scheduledDate # Missing /\ scheduledDate = Garbage
            THEN {"Invalid date format"} ELSE {}
      e5 == IF (~ falsyQty) /\ quantity.v > MaxQuantityPerOrder
            THEN {"Maximum 10 meals per order"} ELSE {}
  IN  e1 \cup e2 \cup e3 \cup e4 \cup e5

\* variant: every status an order can have passes
validateStatusUpdate_orderStatuses(status) ==
  status # "" /\ status \in OrderStatuses

\* variant: any non-empty status passes
validateStatusUpdate_nonEmpty(status) == status # ""

validateStatusUpdate(status) == status # "" /\ status \in validStatuses

\* variant: any authenticated user passes
requireRole_anyUser(allowedRoles, user) == user # NoUser

requireRole(allowedRoles, user) ==
  user # NoUser /\ user.role \in allowedRoles

(* ----------------------------- OrderService ---------------------------- *)

StatusCodeOf(code) ==
  CASE code = "ok"                 -> 200
    [] code = "created"            -> 201
    [] code = "validation_error"   -> 400
    [] code = "invalid_date"       -> 400
    [] code = "cannot_cancel"      -> 400
    [] code = "student_not_found"  -> 401
    [] code = "unauthorized"       -> 401
    [] code = "forbidden"          -> 403
    [] code = "meal_not_available" -> 404
    [] code = "order_not_found"    -> 404
    [] code = "duplicate_order"    -> 409
    [] code = "server_error"       -> 500

\* variant: the student is looked up before the date and the meal
createOrderCheck_studentFirst(os, ms, now, studentId, mealId, scheduledDate) ==
  IF ~ getStudentById(studentId) THEN "student_not_found"
  ELSE IF scheduledDate < now THEN "invalid_date"
  ELSE IF ~ (getMealById(ms, mealId) /\ ms[mealId].available)
       THEN "meal_not_available"
  ELSE IF findExistingOrder(os, studentId, scheduledDate) # 0
       THEN "duplicate_order"
  ELSE "created"

\* the checks of createOrder, in the order the code makes them
createOrderCheck(os, ms, now, studentId, mealId, scheduledDate) ==
  IF scheduledDate < now THEN "invalid_date"
  ELSE IF ~ (getMealById(ms, mealId) /\ ms[mealId].available)
       THEN "meal_not_available"
  ELSE IF ~ getStudentById(studentId) THEN "student_not_found"
  ELSE IF findExistingOrder(os, studentId, scheduledDate) # 0
       THEN "duplicate_order"
  ELSE "created"

\* variant: the subsidy is granted once per order, not once per meal
subsidyOf_perOrder(studentId, meal, quantity) ==
  IF StudentTable[studentId].subsidyEligible
  THEN meal.subsidyAmount ELSE 0

subsidyOf(studentId, meal, quantity) ==
  IF StudentTable[studentId].subsidyEligible
  THEN meal.subsidyAmount * quantity ELSE 0

Max(a, b) == IF a >= b THEN a ELSE b

priceOrder(studentId, mealId, scheduledDate, quantity, ms) ==
  LET totalAmount   == ms[mealId].price * quantity
      subsidyAmount == subsidyOf(studentId, ms[mealId], quantity)
      finalAmount   == Max(0, totalAmount - subsidyAmount)
  IN [ studentId |-> studentId, mealId |-> mealId,
       scheduledDate |-> scheduledDate, quantity |-> quantity,
       totalAmount |-> totalAmount, subsidyAmount |-> subsidyAmount,
       finalAmount |-> finalAmount ]

\* variant: any student may read any order
getOrderByIdCheck_anyStudent(os, orderId, studentId) ==
  IF findById(os, orderId) = 0 THEN "order_not_found" ELSE "ok"

\* the check of getOrderById
getOrderByIdCheck(os, orderId, studentId) ==
  LET i == findById(os, orderId) IN
  IF i = 0 \/ os[i].studentId # studentId THEN "order_not_found"
  ELSE "ok"

\* variant: the stage of the order is not looked at
cancelOrderCheck_anyStage(os, orderId, studentId) ==
  LET i == findById(os, orderId) IN
  IF i = 0 \/ os[i].studentId # studentId THEN "order_not_found"
  ELSE "ok"

cancelOrderCheck(os, orderId, studentId) ==
  LET i == findById(os, orderId) IN
  IF i = 0 \/ os[i].studentId # studentId THEN "order_not_found"
  ELSE IF os[i].status \notin {"PENDING", "CONFIRMED"} THEN "cannot_cancel"
  ELSE "ok"

Response(op, user, orderId, mealId, date, qty, status, code) ==
  [ op |-> op, user |-> user, orderId |-> orderId, mealId |-> mealId,
    date |-> date, qty |-> qty, status |-> status, code |-> code,
    http |-> StatusCodeOf(code), fault |-> "none" ]

\* the response once a step after the store mutation has thrown: an exception
\* caught in the service leaves the response as it is, one that reaches the
\* route's catch block is answered error.statusCode || 500, server_error
FaultResponse(r, fault, caught) ==
  IF fault = "none" THEN r
  ELSE IF caught THEN [r EXCEPT !.fault = fault]
  ELSE [r EXCEPT !.fault = fault, !.code = "server_error",
                 !.http = StatusCodeOf("server_error")]

\* variant: the refund is marked whatever the payment status
refundDue_always(order) == TRUE

\* cancelOrder marks a refund for an order that was paid a positive amount
refundDue(order) == order.paymentStatus = "PAID" /\ order.finalAmount > 0

NoQty == [present |-> FALSE, v |-> 0]

InitialPaymentCounter == 5000
NoPayment == 0               \* "no payment" in a gateway response
InitialRefundCounter == 1000
NoRefund == 0                \* "no refund" in a gateway response

GhostPayment == 4999         \* a payment id that was never issued
NoTxn == 0                   \* transactionId of a payment not completed
DefaultExpiryMinutes == 60
QuarterMinute == 15          \* seconds

\* initiatePayment arguments; expiryQuarters is expiryMinutes * 4 (0: absent)
PaymentDataInputs ==
  [ orderId : {"", "ORD1000"}, amount : {0, -5, 200}, currency : {"LKR"},
    description : {"", "School meal"}, expiryQuarters : {0, 1, 4} ]
TxnInputs == {1, 2}
\* two of the five methods getRandomPaymentMethod draws from
MethodInputs == {"CREDIT_CARD", "QR_CODE"}
ClockSteps == {QuarterMinute, DefaultExpiryMinutes * 60}

GhostRefund == 999           \* a refund id that was never issued
NotCompleted == -1           \* completedAt of a refund not completed
\* initiateRefund arguments: the payment stored first, one never issued, none
RefundDataInputs ==
  [ paymentId : {NoPayment, GhostPayment, InitialPaymentCounter + 1},
    amount : {0, 200, 300}, reason : {"", "Order cancelled"} ]
\* steps of 5 s and 25 s reach both sides of the 5 s and 30 s thresholds
RefundClockSteps == {5, 25}

\* what reading orderId, amount, ... off a value without these properties
\* gives: undefined, written as the empty string and 0
Undefineds ==
  [ orderId |-> "", amount |-> 0, currency |-> "", description |-> "",
    expiryQuarters |-> 0 ]
NoHttp == 0                  \* a gateway call has no HTTP status
NoRequest == [hasToken |-> FALSE, body |-> Undefineds]
\* bodies of POST /api/payments/process
ProcessBodyInputs ==
  [ orderId : {"", "ORD1000"}, amount : {0, 200, 20000}, currency : {""},
    description : {"", "School meal"}, expiryQuarters : {0} ]

PayResponse(op, paymentId, status, code, refundAmount) ==
  [ op |-> op, paymentId |-> paymentId, status |-> status, code |-> code,
    refundAmount |-> refundAmount, refundId |-> NoRefund,
    http |-> NoHttp, success |-> (code = "ok"), request |-> NoRequest ]

RefundResponse(op, refundId, paymentId, status, code, amount) ==
  [ PayResponse(op, paymentId, status, code, amount)
      EXCEPT !.refundId = refundId ]

(* ----------------------------- PayDPIClient ---------------------------- *)

\* Map.get on the payment id; 0 stands for undefined
findPayment(ps, paymentId) ==
  IF \E i \in 1..Len(ps) : ps[i].paymentId = paymentId
  THEN CHOOSE i \in 1..Len(ps) : ps[i].paymentId = paymentId
  ELSE 0

\* expiryMinutes || 60, in seconds
expirySeconds(paymentData) ==
  IF paymentData.expiryQuarters = 0 THEN DefaultExpiryMinutes * 60
  ELSE paymentData.expiryQuarters * QuarterMinute

initiatePaymentCheck(paymentData) ==
  IF \/ paymentData.orderId = ""
     \/ paymentData.amount = 0
     \/ paymentData.currency = ""
     \/ paymentData.description = ""
  THEN "VALIDATION_ERROR"
  ELSE IF paymentData.amount <= 0 THEN "VALIDATION_ERROR"
  ELSE "ok"

\* variant: a payment moves one status forward per poll
progress_oneStep(payment, t, txn, method) ==
  LET elapsed == t - payment.initiatedAt
      s1 == IF payment.status = "INITIATED" /\ elapsed > 30
            THEN "PROCESSING" ELSE payment.status
      completes == payment.status = "PROCESSING" /\ elapsed > 60
      s3 == IF completes THEN "COMPLETED"
            ELSE IF t > payment.expiresAt /\ s1 = "INITIATED"
            THEN "EXPIRED" ELSE s1
  IN [payment EXCEPT
        !.status = s3,
        !.paymentMethod = IF completes THEN method ELSE @,
        !.transactionId = IF completes THEN txn ELSE @,
        !.completedAt = IF completes THEN t ELSE @]

\* variant: the expiry test does not look at the status
progress_expireAnyStatus(payment, t, txn, method) ==
  LET elapsed == t - payment.initiatedAt
      s1 == IF payment.status = "INITIATED" /\ elapsed > 30
            THEN "PROCESSING" ELSE payment.status
      completes == s1 = "PROCESSING" /\ elapsed > 60
      s2 == IF completes THEN "COMPLETED" ELSE s1
      s3 == IF t > payment.expiresAt THEN "EXPIRED" ELSE s2
  IN [payment EXCEPT
        !.status = s3,
        !.paymentMethod = IF completes THEN method ELSE @,
        !.transactionId = IF completes THEN txn ELSE @,
        !.completedAt = IF completes THEN t ELSE @]

\* the status progression of getPaymentStatus at clock time t; txn and method
\* are the transaction id and the payment method drawn if the payment
\* completes in this call
progress(payment, t, txn, method) ==
  LET elapsed == t - payment.initiatedAt
      s1 == IF payment.status = "INITIATED" /\ elapsed > 30
            THEN "PROCESSING" ELSE payment.status
      completes == s1 = "PROCESSING" /\ elapsed > 60
      s2 == IF completes THEN "COMPLETED" ELSE s1
      s3 == IF t > payment.expiresAt /\ s2 = "INITIATED"
            THEN "EXPIRED" ELSE s2
  IN [payment EXCEPT
        !.status = s3,
        !.paymentMethod = IF completes THEN method ELSE @,
        !.transactionId = IF completes THEN txn ELSE @,
        !.completedAt = IF completes THEN t ELSE @]

\* Map.get on the refund id; 0 stands for undefined
findRefund(rs, refundId) ==
  IF \E i \in 1..Len(rs) : rs[i].refundId = refundId
  THEN CHOOSE i \in 1..Len(rs) : rs[i].refundId = refundId
  ELSE 0

\* variant: the status of the payment is not looked at
initiateRefundCheck_anyStatus(ps, refundData) ==
  IF \/ refundData.paymentId = NoPayment
     \/ refundData.amount = 0
     \/ refundData.reason = ""
  THEN "VALIDATION_ERROR"
  ELSE IF findPayment(ps, refundData.paymentId) = 0 THEN "NOT_FOUND"
  ELSE IF refundData.amount > ps[findPayment(ps, refundData.paymentId)].amount
  THEN "INVALID_AMOUNT"
  ELSE "ok"

\* the checks of initiateRefund, in the order of the code; a missing
\* paymentId is NoPayment, a missing or zero amount is 0, a missing reason ""
initiateRefundCheck(ps, refundData) ==
  IF \/ refundData.paymentId = NoPayment
     \/ refundData.amount = 0
     \/ refundData.reason = ""
  THEN "VALIDATION_ERROR"
  ELSE IF findPayment(ps, refundData.paymentId) = 0 THEN "NOT_FOUND"
  ELSE IF ps[findPayment(ps, refundData.paymentId)].status # "COMPLETED"
  THEN "INVALID_STATE"
  ELSE IF refundData.amount > ps[findPayment(ps, refundData.paymentId)].amount
  THEN "INVALID_AMOUNT"
  ELSE "ok"

\* variant: a refund moves one status forward per poll
progressRefund_oneStep(refund, t) ==
  LET elapsed == t - refund.initiatedAt
      s1 == IF refund.status = "INITIATED" /\ elapsed > 5
            THEN "PROCESSING" ELSE refund.status
      completes == refund.status = "PROCESSING" /\ elapsed > 30
  IN [refund EXCEPT
        !.status = IF completes THEN "COMPLETED" ELSE s1,
        !.completedAt = IF completes THEN t ELSE @]

\* the status progression of getRefundStatus at clock time t
progressRefund(refund, t) ==
  LET elapsed == t - refund.initiatedAt
      s1 == IF refund.status = "INITIATED" /\ elapsed > 5
            THEN "PROCESSING" ELSE refund.status
      completes == s1 = "PROCESSING" /\ elapsed > 30
  IN [refund EXCEPT
        !.status = IF completes THEN "COMPLETED" ELSE s1,
        !.completedAt = IF completes THEN t ELSE @]

(* ---------------------- payment-service: PaymentService ---------------- *)

\* a JavaScript argument: a string, or an object with the payment fields
StringValue(str) == [kind |-> "string", str |-> str, fields |-> Undefineds]
ObjectValue(fields) == [kind |-> "object", str |-> "", fields |-> fields]

\* property reads on the argument: a string has none of the payment fields
PropertiesOf(value) ==
  IF value.kind = "object" THEN value.fields ELSE Undefineds

\* validatePaymentRequest(req, res, next) on req.body
validatePaymentRequest(body) ==
  IF \/ body.orderId = ""
     \/ body.amount = 0 \/ body.amount <= 0
     \/ (body.amount # 0 /\ body.amount > 10000)
  THEN "validation_error"
  ELSE "ok"

\* the object PaymentService.initiatePayment hands to the gateway client
paydpiPaymentData(paymentData) ==
  [ orderId        |-> paymentData.orderId,
    amount         |-> paymentData.amount,
    currency       |-> IF paymentData.currency = "" THEN "LKR"
                       ELSE paymentData.currency,
    description    |-> paymentData.description,
    expiryQuarters |-> IF paymentData.expiryQuarters = 0
                       THEN DefaultExpiryMinutes * 4
                       ELSE paymentData.expiryQuarters ]

\* PaymentService.initiatePayment: its own field check, then the client's;
\* every throw is caught and answered as PAYMENT_INITIATION_FAILED
servicePaymentCheck(paymentData) ==
  IF \/ paymentData.orderId = ""
     \/ paymentData.amount = 0
     \/ paymentData.description = ""
  THEN "PAYMENT_INITIATION_FAILED"
  ELSE IF initiatePaymentCheck(paydpiPaymentData(paymentData)) # "ok"
  THEN "PAYMENT_INITIATION_FAILED"
  ELSE "ok"

\* variant: processPayment receives the request body
processPayment_body(userId, body) == ObjectValue(body)

\* router.post('/process') calls processPayment(req.user.id, req.body) and
\* processPayment(paymentData) binds its first argument
processPayment(userId, body) == StringValue(userId)

(* -------------------------------- state -------------------------------- *)

Init ==
  /\ orders = << >>
  /\ counter = InitialCounter
  /\ meals = MealTable
  /\ today = 0
  /\ updates = 0
  /\ issued = {}
  /\ cancels = {}
  /\ rt = [id |-> NoId, mealId |-> "", before |-> 0, trip |-> "none"]
  /\ last = Response("none", "", NoId, "", Missing, NoQty, "", "ok")
  /\ calls = << >>
  /\ payments = << >>
  /\ paymentCounter = InitialPaymentCounter
  /\ clock = 0
  /\ ticks = 0
  /\ firstPoll = {}
  /\ plast = PayResponse("none", NoPayment, "", "", 0)
  /\ refunds = << >>
  /\ refundCounter = InitialRefundCounter

\* the steps of createOrder that follow the store mutation and may throw
CreateFaults == {"none", "payment", "notification"}
\* the steps of cancelOrder that follow the store mutation and may throw
CancelFaults == {"none", "refund", "notification"}

\* variant: the order id is drawn before the checks, so a rejected call
\* uses one up
createOrderWith_reserveId(studentId, mealId, scheduledDate, quantity, fault) ==
  LET code == createOrderCheck(orders, meals, today, studentId, mealId,
                               scheduledDate)
      ok   == Response("createOrder", studentId, counter, mealId,
                       scheduledDate, [present |-> TRUE, v |-> quantity],
                       "", code)
  IN
  /\ IF code = "created"
     THEN LET data == priceOrder(studentId, mealId, scheduledDate, quantity,
                                 meals)
          IN
          \* the payment step sits in a try block and runs when money is due
          /\ fault = "payment" => data.finalAmount > 0
          /\ orders' = create(orders, counter, data)
          /\ counter' = counter + 1
          /\ meals' = updateAvailability(meals, mealId, quantity)
          /\ issued' = IF fault = "notification" THEN issued
                        ELSE issued \cup { counter }
          /\ rt' = [id |-> counter, mealId |-> mealId,
                    before |-> meals[mealId].currentQuantity, trip |-> "open"]
          /\ last' = FaultResponse(ok, fault, fault = "payment")
     ELSE /\ fault = "none"
          /\ counter' = counter + 1
          /\ UNCHANGED <<orders, meals, issued, cancels, rt>>
          /\ last' = Response("createOrder", studentId, NoId, mealId,
                       scheduledDate, [present |-> TRUE, v |-> quantity],
                       "", code)
  /\ UNCHANGED <<today, updates, cancels,
                 raceVars, payVars>>

\* OrderService.createOrder(studentId, {mealId, scheduledDate, quantity}),
\* with the step after Order.create that throws, if any
createOrderWith(studentId, mealId, scheduledDate, quantity, fault) ==
  LET code == createOrderCheck(orders, meals, today, studentId, mealId,
                               scheduledDate)
      ok   == Response("createOrder", studentId, counter, mealId,
                       scheduledDate, [present |-> TRUE, v |-> quantity],
                       "", code)
  IN
  /\ IF code = "created"
     THEN LET data == priceOrder(studentId, mealId, scheduledDate, quantity,
                                 meals)
          IN
          \* the payment step sits in a try block and runs when money is due
          /\ fault = "payment" => data.finalAmount > 0
          /\ orders' = create(orders, counter, data)
          /\ counter' = counter + 1
          /\ meals' = updateAvailability(meals, mealId, quantity)
          /\ issued' = IF fault = "notification" THEN issued
                        ELSE issued \cup { counter }
          /\ rt' = [id |-> counter, mealId |-> mealId,
                    before |-> meals[mealId].currentQuantity, trip |-> "open"]
          /\ last' = FaultResponse(ok, fault, fault = "payment")
     ELSE /\ fault = "none"
          /\ UNCHANGED <<orders, counter, meals, issued, cancels, rt>>
          /\ last' = Response("createOrder", studentId, NoId, mealId,
                       scheduledDate, [present |-> TRUE, v |-> quantity],
                       "", code)
  /\ UNCHANGED <<today, updates, cancels,
                 raceVars, payVars>>

\* the store has room for the order the request would create
WithinBound(limit, studentId, mealId, scheduledDate) ==
  createOrderCheck(orders, meals, today, studentId, mealId, scheduledDate)
     = "created" => Len(orders) < limit

createOrder(studentId, mealId, scheduledDate, quantity) ==
  /\ WithinBound(MaxOrders, studentId, mealId, scheduledDate)
  /\ createOrderWith(studentId, mealId, scheduledDate, quantity, "none")

\* OrderService.cancelOrder(orderId, studentId, reason), with the step after
\* Order.cancel that throws, if any
cancelOrderWith(orderId, studentId, fault) ==
  LET code == cancelOrderCheck(orders, orderId, studentId)
      i    == findById(orders, orderId)
      order == orders[i]
      cancelled == cancel(orders, orderId)
      ok   == Response("cancelOrder", studentId, orderId, "", Missing, NoQty,
                       "", code)
  IN
  /\ IF code = "ok"
     THEN \* the refund step sits in a try block and runs when a refund is due
          /\ fault = "refund" => refundDue(order)
          /\ orders' = IF refundDue(order) /\ fault # "refund"
                       THEN updatePaymentStatus(cancelled, orderId, "REFUNDED")
                       ELSE cancelled
          /\ meals' = restoreAvailability(meals, order.mealId, order.quantity)
          /\ cancels' = cancels \cup {orderId}
          /\ rt' = IF rt.trip = "open" /\ rt.mealId = order.mealId
                   THEN [rt EXCEPT !.trip = IF rt.id = orderId THEN "closed"
                                            ELSE "spoiled"]
                   ELSE rt
          /\ last' = FaultResponse(ok, fault, fault = "refund")
     ELSE /\ fault = "none"
          /\ UNCHANGED <<orders, meals, cancels, rt>>
          /\ last' = ok
  /\ UNCHANGED <<counter, today, updates, issued,
                 raceVars, payVars>>

cancelOrder(orderId, studentId) == cancelOrderWith(orderId, studentId, "none")

\* OrderService.updateOrderStatus(orderId, staffId, {status, notes})
updateOrderStatus(orderId, staffId, status) ==
  LET code == IF findById(orders, orderId) = 0 THEN "order_not_found"
              ELSE "ok"
  IN
  /\ IF code = "ok"
     THEN /\ orders' = updateStatus(orders, orderId, status, staffId)
          /\ updates' = updates + 1
     ELSE UNCHANGED <<orders, updates>>
  /\ last' = Response("updateOrderStatus", staffId, orderId, "", Missing,
                      NoQty, status, code)
  /\ UNCHANGED <<counter, meals, today, issued, cancels, rt,
                 raceVars, payVars>>

\* PATCH /:orderId/status once the caller is known to be staff:
\* validateStatusUpdate, then the service
staffUpdate(orderId, staffId, status) ==
  IF validateStatusUpdate(status)
  THEN updateOrderStatus(orderId, staffId, status)
  ELSE /\ last' = Response("PATCH /status", staffId, orderId, "", Missing,
                           NoQty, status, "validation_error")
       /\ UNCHANGED <<orders, counter, meals, today, updates, issued, cancels, rt,
                      raceVars, payVars>>

\* Order.updatePaymentStatus, called on the store by the payment integration
UpdatePaymentStatus(orderId, paymentStatus) ==
  /\ findIndex(orders, orderId) # 0
  /\ updates < MaxHistory
  /\ updates' = updates + 1
  /\ orders' = updatePaymentStatus(orders, orderId, paymentStatus)
  /\ last' = Response("updatePaymentStatus", "", orderId, "", Missing, NoQty,
                      paymentStatus, "ok")
  /\ UNCHANGED <<counter, meals, today, issued, cancels, rt,
                 raceVars, payVars>>

\* Order.updatePaymentInfo, called on the store by the payment integration
UpdatePaymentInfo(orderId, paymentInfo) ==
  /\ findIndex(orders, orderId) # 0
  /\ updates < MaxHistory
  /\ updates' = updates + 1
  /\ orders' = updatePaymentInfo(orders, orderId, paymentInfo)
  /\ last' = Response("updatePaymentInfo", "", orderId, "", Missing, NoQty,
                      paymentInfo.status, "ok")
  /\ UNCHANGED <<counter, meals, today, issued, cancels, rt,
                 raceVars, payVars>>

\* midnight passes
AdvanceDay ==
  /\ today < MaxDay
  /\ today' = today + 1
  /\ last' = Response("advanceDay", "", NoId, "", Missing, NoQty, "", "ok")
  /\ UNCHANGED <<orders, counter, meals, updates, issued, cancels, rt,
                 raceVars, payVars>>

OrderIdInputs == { orders[i].id : i \in 1..Len(orders) } \cup {GhostId}

(* ---------------- Spec: the service layer behind the router ------------ *)

CreateOrder ==
  \E s \in StudentInputs, m \in MealInputs, d \in DateInputs, q \in Quantities :
     createOrder(s, m, d, q)

CancelOrder ==
  \E id \in OrderIdInputs, s \in StudentInputs : cancelOrder(id, s)

UpdateOrderStatus ==
  \E id \in OrderIdInputs, s \in StaffInputs, st \in StatusInputs :
     /\ updates < MaxUpdates
     /\ staffUpdate(id, s, st)

Next ==
  \/ CreateOrder
  \/ CancelOrder
  \/ UpdateOrderStatus
  \/ AdvanceDay

Spec == Init /\ [][Next]_vars

(* -------- SpecStore: one student's orders, longer status histories ------ *)

StoreCreate ==
  \E d \in DateInputs : createOrder("student123", "meal_001", d, 10)

StoreCancel ==
  \E id \in OrderIdInputs : cancelOrder(id, "student123")

StoreUpdate ==
  \E id \in OrderIdInputs, s \in StoreStaffInputs, st \in validStatuses :
     /\ updates < MaxHistory
     /\ updateOrderStatus(id, s, st)

StorePaymentStatus ==
  \E id \in OrderIdInputs, p \in PaymentStatusInputs :
     UpdatePaymentStatus(id, p)

StorePaymentInfo ==
  \E id \in OrderIdInputs, p \in PaymentInfoInputs : UpdatePaymentInfo(id, p)

NextStore ==
  \/ StoreCreate
  \/ StoreCancel
  \/ StoreUpdate
  \/ StorePaymentStatus
  \/ StorePaymentInfo

SpecStore == Init /\ [][NextStore]_vars

(* ------------- SpecWired: the router with its middleware as wired ------- *)

\* the identity authenticateToken attaches to every request with a token
\* variant: the token decodes to a staff identity
MockUser_staff == [id |-> "staff001", role |-> "SCHOOL_STAFF"]

\* the identity authenticateToken puts on every request with a token
MockUser == [id |-> "student123", role |-> "STUDENT"]

authenticateToken(hasToken) == hasToken

Unauthorized(op, orderId, mealId, date, qty, status) ==
  /\ last' = Response(op, "", orderId, mealId, date, qty, status,
                      "unauthorized")
  /\ UNCHANGED <<orders, counter, meals, today, updates, issued, cancels, rt,
                 raceVars, payVars>>

\* router.post('/')
RoutePostOrder(hasToken, mealId, scheduledDate, quantity) ==
  IF ~ authenticateToken(hasToken)
  THEN Unauthorized("POST /", NoId, mealId, scheduledDate, quantity, "")
  ELSE IF validateOrderRequest(mealId, scheduledDate, quantity) # {}
  THEN /\ last' = Response("POST /", MockUser.id, NoId, mealId, scheduledDate,
                           quantity, "", "validation_error")
       /\ UNCHANGED <<orders, counter, meals, today, updates, issued, cancels, rt,
                      raceVars, payVars>>
  ELSE createOrder(MockUser.id, mealId, scheduledDate, quantity.v)

\* router.patch('/:orderId/cancel')
RouteCancel(hasToken, orderId) ==
  IF ~ authenticateToken(hasToken)
  THEN Unauthorized("PATCH /cancel", orderId, "", Missing, NoQty, "")
  ELSE cancelOrder(orderId, MockUser.id)

\* router.patch('/:orderId/status')
RoutePatchStatus(hasToken, orderId, status) ==
  IF ~ authenticateToken(hasToken)
  THEN Unauthorized("PATCH /status", orderId, "", Missing, NoQty, status)
  ELSE IF ~ requireRole(StaffRoles, MockUser)
  THEN /\ last' = Response("PATCH /status", MockUser.id, orderId, "", Missing,
                           NoQty, status, "forbidden")
       /\ UNCHANGED <<orders, counter, meals, today, updates, issued, cancels, rt,
                      raceVars, payVars>>
  ELSE staffUpdate(orderId, MockUser.id, status)

\* router.get('/staff/pending'), whose handler only reads
RouteStaffPending(hasToken) ==
  IF ~ authenticateToken(hasToken)
  THEN Unauthorized("GET /staff/pending", NoId, "", Missing, NoQty, "")
  ELSE IF ~ requireRole(StaffRoles, MockUser)
  THEN /\ last' = Response("GET /staff/pending", MockUser.id, NoId, "",
                           Missing, NoQty, "", "forbidden")
       /\ UNCHANGED <<orders, counter, meals, today, updates, issued, cancels, rt,
                      raceVars, payVars>>
  ELSE /\ last' = Response("getPendingOrdersForStaff", MockUser.id, NoId, "",
                           Missing, NoQty, "", "ok")
       /\ UNCHANGED <<orders, counter, meals, today, updates, issued, cancels, rt,
                      raceVars, payVars>>

WiredPost ==
  \E tk \in BOOLEAN, m \in BodyMealInputs, d \in BodyDateInputs,
     q \in BodyQuantityInputs : RoutePostOrder(tk, m, d, q)

WiredCancel ==
  \E tk \in BOOLEAN, id \in OrderIdInputs : RouteCancel(tk, id)

WiredPatchStatus ==
  \E tk \in BOOLEAN, id \in OrderIdInputs, st \in BodyStatusInputs :
     RoutePatchStatus(tk, id, st)

WiredStaffPending == \E tk \in BOOLEAN : RouteStaffPending(tk)

NextWired ==
  \/ WiredPost
  \/ WiredCancel
  \/ WiredPatchStatus
  \/ WiredStaffPending
  \/ AdvanceDay

SpecWired == Init /\ [][NextWired]_vars

(* ------- SpecStaff: the staff routes behind a decoded identity ---------- *)

StaffRouteOps == {"PATCH /status", "GET /staff/pending", "updateOrderStatus",
                  "getPendingOrdersForStaff"}

Forbidden(op, user, orderId, status) ==
  /\ last' = Response(op, user.id, orderId, "", Missing, NoQty, status,
                      "forbidden")
  /\ UNCHANGED <<orders, counter, meals, today, updates, issued, cancels, rt,
                 raceVars, payVars>>

\* requireRole, validateStatusUpdate and the handler of PATCH /:orderId/status
StaffPatchStatus(user, orderId, status) ==
  IF ~ requireRole(StaffRoles, user)
  THEN Forbidden("PATCH /status", user, orderId, status)
  ELSE staffUpdate(orderId, user.id, status)

\* requireRole and the handler of GET /staff/pending, which only reads
StaffGetPending(user) ==
  IF ~ requireRole(StaffRoles, user)
  THEN Forbidden("GET /staff/pending", user, NoId, "")
  ELSE /\ last' = Response("getPendingOrdersForStaff", user.id, NoId, "",
                           Missing, NoQty, "", "ok")
       /\ UNCHANGED <<orders, counter, meals, today, updates, issued, cancels, rt,
                      raceVars, payVars>>

StaffCreate ==
  \E d \in DateInputs : createOrder("student123", "meal_001", d, 10)

StaffCancel ==
  \E id \in OrderIdInputs : cancelOrder(id, "student123")

StaffPatch ==
  \E u \in RequestUsers, id \in OrderIdInputs, st \in BodyStatusInputs :
     /\ updates < MaxUpdates
     /\ StaffPatchStatus(u, id, st)

StaffPending == \E u \in RequestUsers : StaffGetPending(u)

NextStaff ==
  \/ StaffCreate
  \/ StaffCancel
  \/ StaffPatch
  \/ StaffPending

SpecStaff == Init /\ [][NextStaff]_vars

(* ---- SpecRace: createOrder calls in flight at the same time ------------ *)
\* createOrder is an async function: it runs up to its next await, and any
\* other call in flight may run before it is resumed.  A call is at "meal"
\* while it awaits getMealById, at "student" while it awaits getStudentById,
\* at "existing" while it awaits findExistingOrder, at "created" while it
\* awaits Order.create and at "available" while it awaits updateAvailability;
\* found and existing hold the result of the lookup being awaited.

RaceStudentInputs == {"student123", "student999"}

Call(studentId, mealId, scheduledDate, quantity, pc, found, code) ==
  [ studentId |-> studentId, mealId |-> mealId,
    scheduledDate |-> scheduledDate, quantity |-> quantity, pc |-> pc,
    found |-> found, existing |-> FALSE, id |-> NoId, code |-> code ]

\* the call ends: it throws its error or returns the created order
Settle(i, code) ==
  /\ calls' = [calls EXCEPT ![i].pc = "done", ![i].code = code]
  /\ last' = Response("createOrder", calls[i].studentId, calls[i].id,
                      calls[i].mealId, calls[i].scheduledDate,
                      [present |-> TRUE, v |-> calls[i].quantity], "", code)
  /\ issued' = IF code = "created" THEN issued \cup {calls[i].id} ELSE issued

\* the call is made: the date check, then getMealById is called
StartCall(studentId, mealId, scheduledDate, quantity) ==
  /\ Len(calls) < MaxCalls
  /\ IF scheduledDate < today
     THEN /\ calls' = Append(calls, Call(studentId, mealId, scheduledDate,
                                quantity, "done", FALSE, "invalid_date"))
          /\ last' = Response("createOrder", studentId, NoId, mealId,
                        scheduledDate, [present |-> TRUE, v |-> quantity],
                        "", "invalid_date")
     ELSE /\ calls' = Append(calls, Call(studentId, mealId, scheduledDate,
                                quantity, "meal", getMealById(meals, mealId),
                                ""))
          /\ UNCHANGED last
  /\ UNCHANGED <<orders, counter, meals, today, updates, issued, cancels, rt,
                 payVars>>

\* resumed with the meal: the meal check, then getStudentById is called
ResumeMeal(i) ==
  /\ calls[i].pc = "meal"
  /\ IF ~ (calls[i].found /\ meals[calls[i].mealId].available)
     THEN Settle(i, "meal_not_available")
     ELSE /\ calls' = [calls EXCEPT ![i].pc = "student",
                         ![i].found = getStudentById(calls[i].studentId)]
          /\ UNCHANGED <<last, issued>>
  /\ UNCHANGED <<orders, counter, meals, today, updates, cancels, rt, payVars>>

\* resumed with the student: the student check, then findExistingOrder is
\* called and reads the store
ResumeStudent(i) ==
  /\ calls[i].pc = "student"
  /\ IF ~ calls[i].found
     THEN Settle(i, "student_not_found")
     ELSE /\ calls' = [calls EXCEPT ![i].pc = "existing",
                         ![i].existing =
                            findExistingOrder(orders, calls[i].studentId,
                                              calls[i].scheduledDate) # 0]
          /\ UNCHANGED <<last, issued>>
  /\ UNCHANGED <<orders, counter, meals, today, updates, cancels, rt, payVars>>

\* variant: the store is read again at the moment the order is created
ResumeExisting_recheck(i) ==
  /\ calls[i].pc = "existing"
  /\ IF calls[i].existing
        \/ findExistingOrder(orders, calls[i].studentId,
                             calls[i].scheduledDate) # 0
     THEN /\ Settle(i, "duplicate_order")
          /\ UNCHANGED <<orders, counter>>
     ELSE /\ orders' = create(orders, counter,
                 priceOrder(calls[i].studentId, calls[i].mealId,
                            calls[i].scheduledDate, calls[i].quantity, meals))
          /\ counter' = counter + 1
          /\ calls' = [calls EXCEPT ![i].pc = "created", ![i].id = counter]
          /\ UNCHANGED <<last, issued>>
  /\ UNCHANGED <<meals, today, updates, cancels, rt, payVars>>

\* resumed with the result of findExistingOrder: the duplicate check, the
\* pricing, then Order.create is called and writes the store
ResumeExisting(i) ==
  /\ calls[i].pc = "existing"
  /\ IF calls[i].existing
     THEN /\ Settle(i, "duplicate_order")
          /\ UNCHANGED <<orders, counter>>
     ELSE /\ orders' = create(orders, counter,
                 priceOrder(calls[i].studentId, calls[i].mealId,
                            calls[i].scheduledDate, calls[i].quantity, meals))
          /\ counter' = counter + 1
          /\ calls' = [calls EXCEPT ![i].pc = "created", ![i].id = counter]
          /\ UNCHANGED <<last, issued>>
  /\ UNCHANGED <<meals, today, updates, cancels, rt, payVars>>

\* resumed with the stored order: updateAvailability is called
ResumeCreated(i) ==
  /\ calls[i].pc = "created"
  /\ meals' = updateAvailability(meals, calls[i].mealId, calls[i].quantity)
  /\ calls' = [calls EXCEPT ![i].pc = "available"]
  /\ UNCHANGED <<orders, counter, today, updates, issued, cancels, rt, last,
                 payVars>>

\* resumed after updateAvailability: the notification, which only logs, and
\* the return of the order
ResumeAvailable(i) ==
  /\ calls[i].pc = "available"
  /\ Settle(i, "created")
  /\ UNCHANGED <<orders, counter, meals, today, updates, cancels, rt, payVars>>

RaceStart ==
  \E s \in RaceStudentInputs, d \in DateInputs :
     StartCall(s, "meal_001", d, 10)

RaceMeal == \E i \in 1..Len(calls) : ResumeMeal(i)

RaceStudent == \E i \in 1..Len(calls) : ResumeStudent(i)

RaceExisting == \E i \in 1..Len(calls) : ResumeExisting(i)

RaceCreated == \E i \in 1..Len(calls) : ResumeCreated(i)

RaceAvailable == \E i \in 1..Len(calls) : ResumeAvailable(i)

NextRace ==
  \/ RaceStart
  \/ RaceMeal
  \/ RaceStudent
  \/ RaceExisting
  \/ RaceCreated
  \/ RaceAvailable

SpecRace == Init /\ [][NextRace]_vars

(* -------------- SpecPayDPI: the mock payment gateway client ------------- *)

PaymentIdInputs ==
  { payments[i].paymentId : i \in 1..Len(payments) } \cup {GhostPayment}

\* PayDPIClient.initiatePayment(paymentData)
initiatePayment(paymentData) ==
  LET code == initiatePaymentCheck(paymentData)
      paymentId == paymentCounter + 1
  IN
  /\ code = "ok" => Len(payments) < MaxPayments
  /\ IF code = "ok"
     THEN /\ paymentCounter' = paymentCounter + 1
          /\ payments' = Append(payments,
               [ paymentId     |-> paymentId,
                 orderId       |-> paymentData.orderId,
                 amount        |-> paymentData.amount,
                 status        |-> "INITIATED",
                 initiatedAt   |-> clock,
                 expiresAt     |-> clock + expirySeconds(paymentData),
                 paymentMethod |-> "",
                 transactionId |-> NoTxn,
                 completedAt   |-> 0,
                 cancelledAt   |-> 0 ])
          /\ plast' = PayResponse("initiatePayment", paymentId, "INITIATED",
                                  "ok", 0)
     ELSE /\ UNCHANGED <<payments, paymentCounter>>
          /\ plast' = PayResponse("initiatePayment", NoPayment, "", code, 0)
  /\ UNCHANGED <<clock, ticks, firstPoll>>
  /\ UNCHANGED <<orders, counter, meals, today, updates, issued, cancels, rt,
                 last, raceVars, refunds, refundCounter>>

\* PayDPIClient.getPaymentStatus(paymentId); txn and method are the random
\* transaction id and payment method
getPaymentStatus(paymentId, txn, method) ==
  LET i == findPayment(payments, paymentId) IN
  /\ IF i = 0
     THEN /\ plast' = PayResponse("getPaymentStatus", paymentId, "",
                                  "NOT_FOUND", 0)
          /\ UNCHANGED <<payments, firstPoll>>
     ELSE LET after == progress(payments[i], clock, txn, method) IN
          /\ payments' = [payments EXCEPT ![i] = after]
          /\ plast' = PayResponse("getPaymentStatus", paymentId,
                                  after.status, "ok", 0)
          /\ firstPoll' =
                IF \E f \in firstPoll : f.paymentId = paymentId
                THEN firstPoll
                ELSE firstPoll \cup { [paymentId |-> paymentId,
                                       status |-> after.status,
                                       at |-> clock] }
  /\ UNCHANGED <<paymentCounter, clock, ticks>>
  /\ UNCHANGED <<orders, counter, meals, today, updates, issued, cancels, rt,
                 last, raceVars, refunds, refundCounter>>

\* PayDPIClient.cancelPayment(paymentId, reason)
cancelPayment(paymentId) ==
  LET i == findPayment(payments, paymentId) IN
  /\ IF i = 0
     THEN /\ plast' = PayResponse("cancelPayment", paymentId, "",
                                  "NOT_FOUND", 0)
          /\ UNCHANGED payments
     ELSE IF payments[i].status \notin {"INITIATED", "PROCESSING"}
     THEN /\ plast' = PayResponse("cancelPayment", paymentId,
                                  payments[i].status, "INVALID_STATE", 0)
          /\ UNCHANGED payments
     ELSE LET after == [payments[i] EXCEPT !.status = "CANCELLED",
                                           !.cancelledAt = clock]
          IN
          /\ payments' = [payments EXCEPT ![i] = after]
          \* refundAmount is computed from the record already updated
          /\ plast' = PayResponse("cancelPayment", paymentId, "CANCELLED",
                          "ok",
                          IF after.status = "PROCESSING" THEN after.amount
                          ELSE 0)
  /\ UNCHANGED <<paymentCounter, clock, ticks, firstPoll>>
  /\ UNCHANGED <<orders, counter, meals, today, updates, issued, cancels, rt,
                 last, raceVars, refunds, refundCounter>>

\* time passes at the gateway
Tick(d) ==
  /\ ticks < MaxTicks
  /\ ticks' = ticks + 1
  /\ clock' = clock + d
  /\ plast' = PayResponse("tick", NoPayment, "", "ok", 0)
  /\ UNCHANGED <<payments, paymentCounter, firstPoll>>
  /\ UNCHANGED <<orders, counter, meals, today, updates, issued, cancels, rt,
                 last, raceVars, refunds, refundCounter>>

PayInitiate == \E d \in PaymentDataInputs : initiatePayment(d)

PayStatus ==
  \E id \in PaymentIdInputs, txn \in TxnInputs, method \in MethodInputs :
     getPaymentStatus(id, txn, method)

PayCancel == \E id \in PaymentIdInputs : cancelPayment(id)

PayTick == \E d \in ClockSteps : Tick(d)

NextPayDPI ==
  \/ PayInitiate
  \/ PayStatus
  \/ PayCancel
  \/ PayTick

SpecPayDPI == Init /\ [][NextPayDPI]_vars

(* ------------- SpecRefund: refunds at the mock payment gateway ---------- *)

RefundIdInputs ==
  { refunds[i].refundId : i \in 1..Len(refunds) } \cup {GhostRefund}

\* PayDPIClient.initiateRefund(refundData)
initiateRefund(refundData) ==
  LET code == initiateRefundCheck(payments, refundData)
      refundId == refundCounter + 1
  IN
  /\ code = "ok" => Len(refunds) < MaxRefunds
  /\ IF code = "ok"
     THEN /\ refundCounter' = refundCounter + 1
          /\ refunds' = Append(refunds,
               [ refundId    |-> refundId,
                 paymentId   |-> refundData.paymentId,
                 amount      |-> refundData.amount,
                 status      |-> "INITIATED",
                 initiatedAt |-> clock,
                 completedAt |-> NotCompleted ])
          /\ plast' = [ RefundResponse("initiateRefund", refundId,
                           refundData.paymentId, "INITIATED", "ok",
                           refundData.amount)
                         EXCEPT !.request = refundData ]
     ELSE /\ UNCHANGED <<refunds, refundCounter>>
          /\ plast' = [ RefundResponse("initiateRefund", NoRefund,
                           refundData.paymentId, "", code, refundData.amount)
                         EXCEPT !.request = refundData ]
  /\ UNCHANGED <<payments, paymentCounter, clock, ticks, firstPoll>>
  /\ UNCHANGED <<orders, counter, meals, today, updates, issued, cancels, rt,
                 last, raceVars>>

\* PayDPIClient.getRefundStatus(refundId)
getRefundStatus(refundId) ==
  LET i == findRefund(refunds, refundId) IN
  /\ IF i = 0
     THEN /\ plast' = RefundResponse("getRefundStatus", refundId, NoPayment,
                                     "", "NOT_FOUND", 0)
          /\ UNCHANGED refunds
     ELSE LET after == progressRefund(refunds[i], clock) IN
          /\ refunds' = [refunds EXCEPT ![i] = after]
          /\ plast' = RefundResponse("getRefundStatus", refundId,
                         after.paymentId, after.status, "ok", after.amount)
  /\ UNCHANGED <<payments, paymentCounter, clock, ticks, firstPoll,
                 refundCounter>>
  /\ UNCHANGED <<orders, counter, meals, today, updates, issued, cancels, rt,
                 last, raceVars>>

\* a well-formed payment with the default expiry is opened
RefundPay ==
  \E d \in PaymentDataInputs :
     /\ initiatePaymentCheck(d) = "ok"
     /\ d.expiryQuarters = 0
     /\ initiatePayment(d)

RefundPayStatus ==
  \E id \in PaymentIdInputs, txn \in TxnInputs, method \in MethodInputs :
     getPaymentStatus(id, txn, method)

RefundInitiate == \E d \in RefundDataInputs : initiateRefund(d)

RefundStatus == \E id \in RefundIdInputs : getRefundStatus(id)

RefundTick == \E d \in RefundClockSteps : Tick(d)

NextRefund ==
  \/ RefundPay
  \/ RefundPayStatus
  \/ RefundInitiate
  \/ RefundStatus
  \/ RefundTick

SpecRefund == Init /\ [][NextRefund]_vars

(* ------- SpecProcess: the payment route, its service and the gateway ---- *)

ProcessResponse(op, http, request, paymentId, status, code) ==
  [ PayResponse(op, paymentId, status, code, 0)
      EXCEPT !.http = http, !.request = request ]

\* PaymentService.initiatePayment(paymentData), answered as op with http
serviceInitiatePayment(value, op, http, request) ==
  LET paymentData == PropertiesOf(value)
      code == servicePaymentCheck(paymentData)
      paymentId == paymentCounter + 1
      data == paydpiPaymentData(paymentData)
  IN
  /\ code = "ok" => Len(payments) < MaxPayments
  /\ IF code = "ok"
     THEN /\ paymentCounter' = paymentCounter + 1
          /\ payments' = Append(payments,
               [ paymentId     |-> paymentId,
                 orderId       |-> data.orderId,
                 amount        |-> data.amount,
                 status        |-> "INITIATED",
                 initiatedAt   |-> clock,
                 expiresAt     |-> clock + expirySeconds(data),
                 paymentMethod |-> "",
                 transactionId |-> NoTxn,
                 completedAt   |-> 0,
                 cancelledAt   |-> 0 ])
          /\ plast' = ProcessResponse(op, http, request, paymentId,
                                      "INITIATED", "ok")
     ELSE /\ UNCHANGED <<payments, paymentCounter>>
          /\ plast' = ProcessResponse(op, http, request, NoPayment, "", code)
  /\ UNCHANGED <<clock, ticks, firstPoll, refunds, refundCounter>>
  /\ UNCHANGED <<orders, counter, meals, today, updates, issued, cancels, rt,
                 last, raceVars>>

\* router.post('/process', authenticateToken, validatePaymentRequest, ...)
RouteProcess(hasToken, body) ==
  LET request == [hasToken |-> hasToken, body |-> body] IN
  IF ~ authenticateToken(hasToken)
  THEN /\ plast' = ProcessResponse("POST /process", 401, request, NoPayment,
                                   "", "unauthorized")
       /\ UNCHANGED <<payments, paymentCounter, clock, ticks, firstPoll,
                      refunds, refundCounter>>
       /\ UNCHANGED <<orders, counter, meals, today, updates, issued, cancels,
                      rt, last, raceVars>>
  ELSE IF validatePaymentRequest(body) # "ok"
  THEN /\ plast' = ProcessResponse("POST /process", 400, request, NoPayment,
                                   "", "validation_error")
       /\ UNCHANGED <<payments, paymentCounter, clock, ticks, firstPoll,
                      refunds, refundCounter>>
       /\ UNCHANGED <<orders, counter, meals, today, updates, issued, cancels,
                      rt, last, raceVars>>
  ELSE serviceInitiatePayment(processPayment(MockUser.id, body),
                              "POST /process", 201, request)

ProcessPost ==
  \E hasToken \in BOOLEAN, body \in ProcessBodyInputs :
     RouteProcess(hasToken, body)

\* another module calls PaymentService.initiatePayment with an object
ProcessService ==
  \E body \in ProcessBodyInputs :
     serviceInitiatePayment(ObjectValue(body), "initiatePayment", NoHttp,
                            NoRequest)

ProcessStatus ==
  \E id \in PaymentIdInputs, txn \in TxnInputs, method \in MethodInputs :
     getPaymentStatus(id, txn, method)

ProcessTick == \E d \in ClockSteps : Tick(d)

NextProcess ==
  \/ ProcessPost
  \/ ProcessService
  \/ ProcessStatus
  \/ ProcessTick

SpecProcess == Init /\ [][NextProcess]_vars

(* ------- SpecOwner: students reading and cancelling orders by id -------- *)

\* OrderService.getOrderById(orderId, studentId): the answer carries the
\* order when the check passes and nothing of it otherwise
getOrderById(orderId, studentId) ==
  LET code == getOrderByIdCheck(orders, orderId, studentId)
      i    == findById(orders, orderId)
  IN
  /\ last' = IF code = "ok"
             THEN Response("getOrderById", studentId, orderId,
                           orders[i].mealId, orders[i].scheduledDate,
                           [present |-> TRUE, v |-> orders[i].quantity],
                           orders[i].status, code)
             ELSE Response("getOrderById", studentId, orderId, "", Missing,
                           NoQty, "", code)
  /\ UNCHANGED <<orders, counter, meals, today, updates, issued, cancels, rt,
                 raceVars, payVars>>

GetOrderById ==
  \E id \in OrderIdInputs, s \in StudentInputs : getOrderById(id, s)

NextOwner ==
  \/ CreateOrder
  \/ CancelOrder
  \/ GetOrderById

SpecOwner == Init /\ [][NextOwner]_vars

(* ------ SpecStock: one student ordering the same meal day after day ----- *)

StockDates == 0..MaxStockDay

StockCreate ==
  \E d \in StockDates :
     /\ WithinBound(MaxStockOrders, "student123", "meal_002", d)
     /\ createOrderWith("student123", "meal_002", d, 10, "none")

NextStock == StockCreate

SpecStock == Init /\ [][NextStock]_vars

(* ---- SpecFaults: steps after the store mutation that may throw --------- *)

FaultyCreate ==
  \E d \in DateInputs, f \in CreateFaults :
     /\ WithinBound(MaxOrders, "student123", "meal_001", d)
     /\ createOrderWith("student123", "meal_001", d, 10, f)

FaultyCancel ==
  \E id \in OrderIdInputs, f \in CancelFaults :
     cancelOrderWith(id, "student123", f)

FaultyPaid ==
  \E id \in OrderIdInputs, p \in PaymentStatusInputs :
     UpdatePaymentStatus(id, p)

NextFaults ==
  \/ FaultyCreate
  \/ FaultyCancel
  \/ FaultyPaid

SpecFaults == Init /\ [][NextFaults]_vars

(* ------------------------------ properties ----------------------------- *)

TypeOK ==
  /\ Len(orders) = counter - InitialCounter
  /\ counter >= InitialCounter + Cardinality(issued)

HasOrder(os, orderId) == \E i \in 1..Len(os) : os[i].id = orderId

TheOrder(os, orderId) == os[CHOOSE i \in 1..Len(os) : os[i].id = orderId]

ActiveFor(os, studentId, scheduledDate) ==
  { i \in 1..Len(os) : /\ os[i].studentId = studentId
                       /\ os[i].scheduledDate = scheduledDate
                       /\ os[i].status # "CANCELLED" }

ThePayment(ps, paymentId) == ps[findPayment(ps, paymentId)]

Polled(paymentId) == \E f \in firstPoll : f.paymentId = paymentId

IsPrefix(a, b) == Len(a) <= Len(b) /\ SubSeq(b, 1, Len(a)) = a

BadQuantity(q) == (~ q.present) \/ q.v < 1 \/ q.v > 10

RoleOf(userId) ==
  IF \E u \in RequestUsers : u.id = userId
  THEN (CHOOSE u \in RequestUsers : u.id = userId).role
  ELSE ""

\* C1: every (studentId, scheduledDate) pair has at most one order whose
\* status is not CANCELLED.
C1_OneActiveOrderPerDay ==
  \A i, j \in 1..Len(orders) :
     ( /\ i # j
       /\ orders[i].studentId = orders[j].studentId
       /\ orders[i].scheduledDate = orders[j].scheduledDate )
     => (orders[i].status = "CANCELLED" \/ orders[j].status = "CANCELLED")

\* C2: every stored order has totalAmount = price * quantity, subsidyAmount =
\* subsidy * quantity (0 for a student who is not eligible) and finalAmount =
\* max(0, totalAmount - subsidyAmount), which is never negative; the order a
\* successful createOrder stores carries the requested meal and quantity.
C2_OrderAmounts ==
  /\ \A i \in 1..Len(orders) :
        LET o   == orders[i]
            m   == MealTable[o.mealId]
            tot == m.price * o.quantity
            sub == IF StudentTable[o.studentId].subsidyEligible
                   THEN m.subsidyAmount * o.quantity ELSE 0
        IN /\ o.totalAmount = tot
           /\ o.subsidyAmount = sub
           /\ o.finalAmount = (IF tot - sub > 0 THEN tot - sub ELSE 0)
           /\ o.finalAmount >= 0
  /\ (last.op = "createOrder" /\ last.code = "created") =>
        /\ HasOrder(orders, last.orderId)
        /\ TheOrder(orders, last.orderId).mealId = last.mealId
        /\ TheOrder(orders, last.orderId).quantity = last.qty.v

C2_Witness ==
  /\ last.op = "createOrder"
  /\ last.code = "created"
  /\ last.qty.v > 1

\* C3: a createOrder that is otherwise valid (its date is not past, its meal
\* is available, its student is known) is answered 409 duplicate_order, and
\* stores nothing, when the student has an order for that scheduledDate that
\* is not CANCELLED; once no such order is left, because it has been
\* cancelled, the createOrder is accepted.
C3_DuplicateRejected ==
  [][ ( /\ last'.op = "createOrder"
        /\ last'.date >= today
        /\ last'.mealId \in DOMAIN meals
        /\ meals[last'.mealId].available
        /\ last'.user \in DOMAIN StudentTable )
      => IF ActiveFor(orders, last'.user, last'.date) # {}
         THEN /\ last'.code = "duplicate_order"
              /\ last'.http = 409
              /\ orders' = orders
         ELSE /\ last'.code = "created"
              /\ Len(orders') = Len(orders) + 1 ]_vars

C3_Witness ==
  /\ last.op = "createOrder"
  /\ last.code = "created"
  /\ \E i \in 1..Len(orders) :
        /\ orders[i].id # last.orderId
        /\ orders[i].studentId = last.user
        /\ orders[i].scheduledDate = last.date
        /\ orders[i].status = "CANCELLED"

\* C4: a student's cancelOrder on their own order succeeds only when the
\* order is PENDING or CONFIRMED; on an order in PREPARING, READY, DELIVERED
\* or CANCELLED it is answered 400 cannot_cancel and changes neither the
\* orders nor the meals; and no order is cancelled, and its quantity
\* restored, twice.
C4_CancelOnlyOnce ==
  [][ ( /\ last'.op = "cancelOrder"
        /\ HasOrder(orders, last'.orderId)
        /\ TheOrder(orders, last'.orderId).studentId = last'.user )
      => LET o == TheOrder(orders, last'.orderId) IN
         /\ last'.code = "ok" => o.status \in {"PENDING", "CONFIRMED"}
         /\ o.status \notin {"PENDING", "CONFIRMED"} =>
               /\ last'.code = "cannot_cancel"
               /\ last'.http = 400
               /\ orders' = orders
               /\ meals' = meals
         /\ last'.code = "ok" => last'.orderId \notin cancels ]_vars

\* C4 without its last clause: the stage check of cancelOrder on its own
C4_StageCheck ==
  [][ ( /\ last'.op = "cancelOrder"
        /\ HasOrder(orders, last'.orderId)
        /\ TheOrder(orders, last'.orderId).studentId = last'.user )
      => LET o == TheOrder(orders, last'.orderId) IN
         /\ last'.code = "ok" => o.status \in {"PENDING", "CONFIRMED"}
         /\ o.status \notin {"PENDING", "CONFIRMED"} =>
               /\ last'.code = "cannot_cancel"
               /\ last'.http = 400
               /\ orders' = orders
               /\ meals' = meals ]_vars

\* C5: a successful updateOrderStatus makes the order's statusHistory longer
\* by exactly one entry, which carries the new status and the acting staffId;
\* an update of an unknown order id changes no order.
C5_OneHistoryEntryPerUpdate ==
  [][ last'.op = "updateOrderStatus"
      => IF last'.code = "ok"
         THEN /\ HasOrder(orders, last'.orderId)
              /\ HasOrder(orders', last'.orderId)
              /\ LET h  == TheOrder(orders, last'.orderId).statusHistory
                     h2 == TheOrder(orders', last'.orderId).statusHistory
                 IN /\ Len(h2) = Len(h) + 1
                    /\ h2[Len(h2)] = [status  |-> last'.status,
                                      staffId |-> last'.user]
         ELSE /\ ~ HasOrder(orders, last'.orderId)
              /\ orders' = orders ]_vars

C5_Witness ==
  /\ last.op = "updateOrderStatus"
  /\ last.code = "ok"
  /\ HasOrder(orders, last.orderId)
  /\ Len(TheOrder(orders, last.orderId).statusHistory) = 2

\* C6: statusHistory is append-only: across every step each stored order is
\* still stored and its earlier statusHistory is a prefix of its later one.
C6_HistoryAppendOnly ==
  [][ \A i \in 1..Len(orders) :
         /\ HasOrder(orders', orders[i].id)
         /\ IsPrefix(orders[i].statusHistory,
                     TheOrder(orders', orders[i].id).statusHistory) ]_vars

C6_Witness ==
  /\ last.op \in {"cancelOrder", "updatePaymentStatus", "updatePaymentInfo"}
  /\ last.code = "ok"
  /\ HasOrder(orders, last.orderId)
  /\ Len(TheOrder(orders, last.orderId).statusHistory) >= 1
  /\ \E i \in 1..Len(orders) : Len(orders[i].statusHistory) = 2

\* C7: a POST request whose quantity is missing, below 1 or above 10 stores no
\* order; when it carries a token it is answered 400 validation_error by the
\* validation middleware and never reaches createOrder.
C7_BadQuantityRejected ==
  [][ ( /\ last'.op \in {"POST /", "createOrder"}
        /\ BadQuantity(last'.qty) )
      => /\ orders' = orders
         /\ counter' = counter
         /\ meals' = meals
         /\ last'.op = "POST /"
         /\ last'.code # "unauthorized" =>
               (last'.code = "validation_error" /\ last'.http = 400) ]_vars

C7_Witness ==
  /\ last.op = "POST /"
  /\ last.code = "validation_error"
  /\ last.qty.present
  /\ last.qty.v = 11
  /\ last.mealId = "meal_001"
  /\ last.date >= today

\* C8: a successful createOrder followed by the successful cancelOrder of
\* that order, with no other order of the meal placed or cancelled in
\* between, leaves the meal's currentQuantity at its value before the
\* createOrder.
C8_CreateCancelRoundTrip ==
  [][ ( /\ last'.op = "cancelOrder"
        /\ last'.code = "ok"
        /\ rt.trip = "open"
        /\ rt.id = last'.orderId )
      => meals'[rt.mealId].currentQuantity = rt.before ]_vars

C8_Witness ==
  /\ last.op = "cancelOrder"
  /\ last.code = "ok"
  /\ rt.trip = "closed"
  /\ rt.id = last.orderId

\* C9: orders are never deleted: the number of stored orders never decreases,
\* and every id a successful createOrder returned is found by findById in
\* every later state.
C9_NeverDeleted ==
  /\ [] ( \A id \in issued :
             /\ findById(orders, id) # 0
             /\ orders[findById(orders, id)].id = id )
  /\ [][ Len(orders') >= Len(orders) ]_vars

C9_Witness ==
  /\ Cardinality(issued) = 2
  /\ \E i \in 1..Len(orders) : orders[i].status = "CANCELLED"
  /\ \E i \in 1..Len(orders) : orders[i].statusHistory # << >>

\* C10: the status of every stored order is one of PENDING, CONFIRMED,
\* PREPARING, READY, DELIVERED, CANCELLED, and an order is PENDING right after
\* the createOrder that stored it.
C10_StatusDomain ==
  /\ \A i \in 1..Len(orders) : orders[i].status \in OrderStatuses
  /\ (last.op = "createOrder" /\ last.code = "created") =>
        /\ HasOrder(orders, last.orderId)
        /\ TheOrder(orders, last.orderId).status = "PENDING"

C10_Witness ==
  /\ last.op = "createOrder"
  /\ last.code = "created"
  /\ \E i \in 1..Len(orders) : orders[i].status = "READY"

\* C11: updateOrderStatus overwrites unconditionally: on an existing order in
\* any current status and for any requested status of the allow-list the call
\* succeeds and the order's status becomes the requested one; backward moves
\* such as DELIVERED to CONFIRMED happen.
C11_UnconditionalOverwrite ==
  [][ ( /\ last'.op = "updateOrderStatus"
        /\ HasOrder(orders, last'.orderId)
        /\ last'.status \in validStatuses )
      => /\ last'.code = "ok"
         /\ last'.http = 200
         /\ TheOrder(orders', last'.orderId).status = last'.status ]_vars

C11_Witness ==
  /\ last.op = "updateOrderStatus"
  /\ last.code = "ok"
  /\ HasOrder(orders, last.orderId)
  /\ LET o == TheOrder(orders, last.orderId) IN
        /\ o.status = "CONFIRMED"
        /\ Len(o.statusHistory) = 2
        /\ o.statusHistory[1].status = "DELIVERED"
        /\ o.statusHistory[2].status = "CONFIRMED"

\* C12: a staff status update whose status is missing or outside CONFIRMED,
\* PREPARING, READY, DELIVERED is answered 400 validation_error by the
\* middleware, the service is not called and no order changes; a status
\* update never leaves an order in PENDING or CANCELLED that was not there.
C12_InvalidStatusRejected ==
  [][ ( /\ last'.op \in {"PATCH /status", "updateOrderStatus"}
        /\ RoleOf(last'.user) \in StaffRoles )
      => /\ last'.status \notin validStatuses =>
               /\ last'.op = "PATCH /status"
               /\ last'.code = "validation_error"
               /\ last'.http = 400
               /\ orders' = orders
               /\ updates' = updates
         /\ \A i \in 1..Len(orders) :
               orders'[i].status # orders[i].status =>
                  orders'[i].status \notin {"PENDING", "CANCELLED"} ]_vars

C12_Witness ==
  /\ last.op = "PATCH /status"
  /\ last.code = "validation_error"
  /\ last.status = "CANCELLED"
  /\ RoleOf(last.user) = "SCHOOL_STAFF"
  /\ HasOrder(orders, last.orderId)
  /\ TheOrder(orders, last.orderId).status = "PENDING"

\* C13: a request to PATCH /:orderId/status or GET /staff/pending reaches the
\* order service only when the user's role is SCHOOL_STAFF or ADMIN; for
\* any other role, or no user, it is answered 403 forbidden and neither the
\* orders nor the meals change.
C13_StaffRoutesGated ==
  [][ last'.op \in StaffRouteOps
      => IF RoleOf(last'.user) \in StaffRoles
         THEN last'.code # "forbidden"
         ELSE /\ last'.op \in {"PATCH /status", "GET /staff/pending"}
              /\ last'.code = "forbidden"
              /\ last'.http = 403
              /\ orders' = orders
              /\ meals' = meals ]_vars

C13_Witness ==
  /\ last.op = "PATCH /status"
  /\ last.code = "forbidden"
  /\ RoleOf(last.user) = "PARENT"
  /\ last.status = "CONFIRMED"
  /\ HasOrder(orders, last.orderId)
  /\ TheOrder(orders, last.orderId).status = "PENDING"

\* C14: createOrder answers 400 invalid_date for a scheduledDate before
\* today, 404 meal_not_available for an unknown or unavailable meal and 401
\* student_not_found for an unknown student; the checks run in the order
\* date, meal, student, duplicate, and the error is that of the first check
\* that fails.
C14_FirstFailingCheck ==
  [][ last'.op = "createOrder"
      => IF last'.date < today
         THEN last'.code = "invalid_date" /\ last'.http = 400
         ELSE IF ~ ( /\ last'.mealId \in DOMAIN meals
                     /\ meals[last'.mealId].available )
         THEN last'.code = "meal_not_available" /\ last'.http = 404
         ELSE IF last'.user \notin DOMAIN StudentTable
         THEN last'.code = "student_not_found" /\ last'.http = 401
         ELSE IF ActiveFor(orders, last'.user, last'.date) # {}
         THEN last'.code = "duplicate_order" /\ last'.http = 409
         ELSE last'.code = "created" /\ last'.http = 201 ]_vars

C14_Witness ==
  /\ last.op = "createOrder"
  /\ last.code = "meal_not_available"
  /\ last.date >= today
  /\ last.user \notin DOMAIN StudentTable
  /\ Len(orders) >= 1

\* C15: when the notification step, the payment-initiation step or the refund
\* step of createOrder or cancelOrder fails, the caller still receives the
\* success response and the order mutation already made stays in the store.
C15_FailuresSwallowed ==
  [][ last'.fault # "none"
      => /\ last'.op = "createOrder" =>
               /\ last'.code = "created"
               /\ last'.http = 201
               /\ Len(orders') = Len(orders) + 1
         /\ last'.op = "cancelOrder" =>
               /\ last'.code = "ok"
               /\ last'.http = 200
               /\ TheOrder(orders', last'.orderId).status = "CANCELLED" ]_vars

\* C15 for the steps that sit in a try block (payment initiation, refund),
\* and the part of it that holds for every step: the mutation stays
C15_CaughtStepsSwallowed ==
  [][ last'.fault # "none"
      => /\ last'.fault \in {"payment", "refund"} =>
               last'.code \in {"created", "ok"}
         /\ last'.op = "createOrder" =>
               /\ Len(orders') = Len(orders) + 1
               /\ meals' # meals
         /\ last'.op = "cancelOrder" =>
               /\ TheOrder(orders', last'.orderId).status = "CANCELLED"
               /\ meals' # meals ]_vars

\* C16: a successful cancelOrder of an order that was PAID with a finalAmount
\* above 0 leaves it with paymentStatus REFUNDED; a successful cancelOrder of
\* any other order leaves its paymentStatus unchanged.
C16_RefundOnCancel ==
  [][ ( /\ last'.op = "cancelOrder"
        /\ last'.code = "ok" )
      => LET o  == TheOrder(orders, last'.orderId)
             o2 == TheOrder(orders', last'.orderId)
         IN IF o.paymentStatus = "PAID" /\ o.finalAmount > 0
            THEN o2.paymentStatus = "REFUNDED"
            ELSE o2.paymentStatus = o.paymentStatus ]_vars

C16_Witness ==
  /\ last.op = "cancelOrder"
  /\ last.code = "ok"
  /\ TheOrder(orders, last.orderId).paymentStatus = "REFUNDED"
  /\ \E i \in 1..Len(orders) :
        orders[i].status = "CANCELLED" /\ orders[i].paymentStatus = "PENDING"

\* C17: createOrder does not compare the quantity with the meal's
\* currentQuantity: a request that passes the date, meal, student and
\* duplicate checks is accepted whatever is left, the quantity is subtracted
\* as it is, and currentQuantity goes below zero.
C17_NoAvailabilityCheck ==
  [][ ( /\ last'.op = "createOrder"
        /\ last'.date >= today
        /\ last'.mealId \in DOMAIN meals
        /\ last'.user \in DOMAIN StudentTable
        /\ ActiveFor(orders, last'.user, last'.date) = {} )
      => /\ last'.code = "created"
         /\ meals'[last'.mealId].currentQuantity =
               meals[last'.mealId].currentQuantity - last'.qty.v ]_vars

C17_Witness ==
  /\ last.op = "createOrder"
  /\ last.code = "created"
  /\ meals[last.mealId].currentQuantity < 0
  /\ meals[last.mealId].currentQuantity + last.qty.v > 0

\* C18: a createOrder call that passed the duplicate check stores its order
\* when it is resumed, whatever has been stored since the check; two calls
\* for the same student and scheduledDate that are in flight together can
\* both pass the check before either stores, and then both orders are stored.
C18_CheckThenAct ==
  [][ \A i \in 1..Len(calls) :
         ( /\ calls[i].pc = "existing"
           /\ ~ calls[i].existing
           /\ calls'[i].pc # "existing" )
         => /\ calls'[i].pc = "created"
            /\ Len(orders') = Len(orders) + 1
            /\ orders'[Len(orders')].studentId = calls[i].studentId
            /\ orders'[Len(orders')].scheduledDate = calls[i].scheduledDate
            /\ orders'[Len(orders')].status = "PENDING" ]_vars

C18_Witness ==
  /\ Len(calls) = 2
  /\ calls[1].code = "created"
  /\ calls[2].code = "created"
  /\ Len(orders) = 2
  /\ orders[1].studentId = orders[2].studentId
  /\ orders[1].scheduledDate = orders[2].scheduledDate
  /\ orders[1].status = "PENDING"
  /\ orders[2].status = "PENDING"

\* C19: for a payment that has not been cancelled and whose expiry is at
\* least one minute, getPaymentStatus reports INITIATED while at most 30 s
\* have passed since initiatedAt, PROCESSING after more than 30 s and at most
\* 60 s, and COMPLETED after more than 60 s, whether or not the payment was
\* polled before.
C19_TimedProgression ==
  [][ ( /\ plast'.op = "getPaymentStatus"
        /\ findPayment(payments, plast'.paymentId) # 0
        /\ ThePayment(payments, plast'.paymentId).status # "CANCELLED"
        /\ ThePayment(payments, plast'.paymentId).expiresAt
             - ThePayment(payments, plast'.paymentId).initiatedAt >= 60 )
      => LET elapsed == clock
                        - ThePayment(payments, plast'.paymentId).initiatedAt
         IN /\ plast'.code = "ok"
            /\ plast'.status = ThePayment(payments', plast'.paymentId).status
            /\ plast'.status = IF elapsed <= 30 THEN "INITIATED"
                               ELSE IF elapsed <= 60 THEN "PROCESSING"
                               ELSE "COMPLETED" ]_vars

C19_Witness ==
  /\ plast.op = "getPaymentStatus"
  /\ plast.status = "COMPLETED"
  /\ \E f \in firstPoll :
        /\ f.paymentId = plast.paymentId
        /\ f.status = "COMPLETED"
        /\ f.at - ThePayment(payments, plast.paymentId).initiatedAt = 75
  /\ ThePayment(payments, plast.paymentId).expiresAt
       - ThePayment(payments, plast.paymentId).initiatedAt = 60

\* C20: a payment with the default 60-minute expiry that is never cancelled
\* and is polled for the first time after its expiresAt is reported EXPIRED.
C20_ExpiredOnLatePoll ==
  [][ ( /\ plast'.op = "getPaymentStatus"
        /\ findPayment(payments, plast'.paymentId) # 0
        /\ ~ Polled(plast'.paymentId)
        /\ ThePayment(payments, plast'.paymentId).status # "CANCELLED"
        /\ ThePayment(payments, plast'.paymentId).expiresAt
             - ThePayment(payments, plast'.paymentId).initiatedAt
             = DefaultExpiryMinutes * 60
        /\ clock > ThePayment(payments, plast'.paymentId).expiresAt )
      => plast'.status = "EXPIRED" ]_vars

RefundRank(status) ==
  CASE status = "INITIATED"  -> 0
    [] status = "PROCESSING" -> 1
    [] status = "COMPLETED"  -> 2

\* C21: a refund's status only moves forward INITIATED, PROCESSING, COMPLETED
\* and only on a getRefundStatus poll of that refund; the poll reports
\* INITIATED while at most 5 s have passed since initiation, PROCESSING after
\* more than 5 s and at most 30 s, COMPLETED after more than 30 s; a COMPLETED
\* refund keeps its status and its completedAt on every later poll.
C21_RefundProgression ==
  [][ /\ Len(refunds') >= Len(refunds)
      /\ \A i \in 1..Len(refunds) :
            LET before  == refunds[i]
                after   == refunds'[i]
                elapsed == clock - before.initiatedAt
                polled  == /\ plast'.op = "getRefundStatus"
                           /\ plast'.refundId = before.refundId
            IN /\ after # before => polled
               /\ RefundRank(after.status) >= RefundRank(before.status)
               /\ before.status = "COMPLETED" => after = before
               /\ polled =>
                    /\ plast'.code = "ok"
                    /\ plast'.status = after.status
                    /\ after.status = IF elapsed <= 5 THEN "INITIATED"
                                      ELSE IF elapsed <= 30 THEN "PROCESSING"
                                      ELSE "COMPLETED" ]_vars

C21_Witness ==
  /\ plast.op = "getRefundStatus"
  /\ \E i \in 1..Len(refunds) :
        /\ refunds[i].refundId = plast.refundId
        /\ refunds[i].status = "COMPLETED"
        /\ refunds[i].completedAt - refunds[i].initiatedAt > 30
        /\ clock > refunds[i].completedAt

\* C22: a POST /api/payments/process request that carries a token, passes
\* validatePaymentRequest and has a description opens a payment session: the
\* gateway then holds an INITIATED payment for the request's orderId and the
\* response has success true and that payment's paymentId.
C22_ProcessOpensSession ==
  [][ ( /\ plast'.op = "POST /process"
        /\ plast'.request.hasToken
        /\ validatePaymentRequest(plast'.request.body) = "ok"
        /\ plast'.request.body.description # "" )
      => /\ plast'.success
         /\ \E i \in 1..Len(payments') :
               /\ payments'[i].paymentId = plast'.paymentId
               /\ payments'[i].orderId = plast'.request.body.orderId
               /\ payments'[i].status = "INITIATED" ]_vars

\* the quantities of the orders of mealId among the first n stored orders
\* that are not CANCELLED, summed
RECURSIVE ActiveQuantity(_, _, _)
ActiveQuantity(os, mealId, n) ==
  IF n = 0 THEN 0
  ELSE ActiveQuantity(os, mealId, n - 1)
       + ( IF os[n].mealId = mealId /\ os[n].status # "CANCELLED"
           THEN os[n].quantity ELSE 0 )

\* C23: in every state reached by createOrder, cancelOrder and
\* updateOrderStatus, each meal's currentQuantity is its initial
\* currentQuantity minus the summed quantities of the meal's orders that are
\* not CANCELLED.
C23_AvailabilityAccounts ==
  \A mealId \in DOMAIN meals :
     meals[mealId].currentQuantity =
        MealTable[mealId].currentQuantity
          - ActiveQuantity(orders, mealId, Len(orders))

\* C24: a createOrder call rejected with invalid_date, meal_not_available,
\* student_not_found or duplicate_order changes nothing: the stored orders,
\* the order id counter and every meal's currentQuantity are as before.
C24_RejectedCreateNoEffect ==
  [][ ( /\ last'.op = "createOrder"
        /\ last'.code \in { "invalid_date", "meal_not_available",
                            "student_not_found", "duplicate_order" } )
      => /\ orders' = orders
         /\ counter' = counter
         /\ \A mealId \in DOMAIN meals :
               meals'[mealId].currentQuantity = meals[mealId].currentQuantity
     ]_vars

C24_Witness ==
  /\ last.op = "createOrder"
  /\ last.code = "duplicate_order"
  /\ Len(orders) = 1
  /\ counter = InitialCounter + 1
  /\ orders[1].status = "PENDING"
  /\ meals[orders[1].mealId].currentQuantity
       = MealTable[orders[1].mealId].currentQuantity - orders[1].quantity

C26_OwnOrdersOnly ==
  [][ ( /\ last'.op \in {"getOrderById", "cancelOrder"}
        /\ HasOrder(orders, last'.orderId)
        /\ TheOrder(orders, last'.orderId).studentId # last'.user )
      => /\ last'.code = "order_not_found"
         /\ last'.http = 404
         /\ last' = [ Response(last'.op, last'.user, GhostId, "", Missing,
                               NoQty, "", "order_not_found")
                        EXCEPT !.orderId = last'.orderId ]
         /\ orders' = orders
         /\ meals' = meals ]_vars

C26_Witness ==
  /\ last.op = "cancelOrder"
  /\ last.code = "order_not_found"
  /\ HasOrder(orders, last.orderId)
  /\ TheOrder(orders, last.orderId).studentId # last.user
  /\ getStudentById(last.user)
  /\ TheOrder(orders, last.orderId).status = "PENDING"

PaymentRank(status) ==
  CASE status = "INITIATED"  -> 0
    [] status = "PROCESSING" -> 1
    [] status \in {"COMPLETED", "CANCELLED", "EXPIRED"} -> 2

\* C27: a payment's status never moves backward, and COMPLETED, CANCELLED and
\* EXPIRED are terminal: a payment in one of them is left as it is by every
\* getPaymentStatus and cancelPayment call (so a COMPLETED payment keeps its
\* transactionId, paymentMethod and completedAt), and cancelPayment on it
\* fails with INVALID_STATE.
C27_TerminalStatuses ==
  [][ \A i \in 1..Len(payments) :
         /\ Len(payments') >= Len(payments)
         /\ PaymentRank(payments'[i].status) >= PaymentRank(payments[i].status)
         /\ payments[i].status \in {"COMPLETED", "CANCELLED", "EXPIRED"}
              => /\ payments'[i] = payments[i]
                 /\ ( /\ plast'.op = "cancelPayment"
                      /\ plast'.paymentId = payments[i].paymentId )
                      => plast'.code = "INVALID_STATE" ]_vars

C27_Witness ==
  /\ plast.op = "getPaymentStatus"
  /\ plast.status = "COMPLETED"
  /\ ThePayment(payments, plast.paymentId).status = "COMPLETED"
  /\ ThePayment(payments, plast.paymentId).transactionId # NoTxn
  /\ clock > ThePayment(payments, plast.paymentId).completedAt

\* what initiateRefund answers going by the payment alone
RefundVerdict(ps, refundData) ==
  LET i == findPayment(ps, refundData.paymentId) IN
  IF i = 0 THEN "NOT_FOUND"
  ELSE IF ps[i].status # "COMPLETED" THEN "INVALID_STATE"
  ELSE IF refundData.amount > ps[i].amount THEN "INVALID_AMOUNT"
  ELSE "ok"

\* the request carries the three required fields
RefundWellFormed(refundData) ==
  /\ refundData.paymentId # NoPayment
  /\ refundData.amount # 0
  /\ refundData.reason # ""

\* the refund store after initiateRefund has stored refundData
RefundStored(refundData) ==
  /\ refundCounter' = refundCounter + 1
  /\ Len(refunds') = Len(refunds) + 1
  /\ SubSeq(refunds', 1, Len(refunds)) = refunds
  /\ refunds'[Len(refunds')].refundId = refundCounter + 1
  /\ refunds'[Len(refunds')].paymentId = refundData.paymentId
  /\ refunds'[Len(refunds')].amount = refundData.amount
  /\ refunds'[Len(refunds')].status = "INITIATED"

\* C28 as stated: initiateRefund stores a refund only when the payment
\* exists, its stored status is COMPLETED and the amount does not exceed the
\* payment's; otherwise it fails with NOT_FOUND, INVALID_STATE or
\* INVALID_AMOUNT respectively, the refund store and counter unchanged.
C28_RefundChecks ==
  [][ plast'.op = "initiateRefund"
      => LET verdict == RefundVerdict(payments, plast'.request) IN
         verdict # "ok"
           => /\ plast'.code = verdict
              /\ refunds' = refunds
              /\ refundCounter' = refundCounter ]_vars

\* C28, amended: a request without paymentId, without a non-zero amount or
\* without a reason fails with VALIDATION_ERROR whatever the payment is; a
\* request with all three fails with NOT_FOUND, INVALID_STATE or
\* INVALID_AMOUNT when the payment does not exist, is not COMPLETED or is
\* smaller than the amount, and otherwise a refund is stored; every failure
\* leaves the refund store and the refund counter unchanged.
C28_RefundChecksWellFormed ==
  [][ plast'.op = "initiateRefund"
      => LET verdict == RefundVerdict(payments, plast'.request) IN
         /\ plast'.code = IF RefundWellFormed(plast'.request) THEN verdict
                          ELSE "VALIDATION_ERROR"
         /\ plast'.code # "ok"
              => /\ refunds' = refunds
                 /\ refundCounter' = refundCounter
         /\ plast'.code = "ok" => RefundStored(plast'.request) ]_vars

C28_Witness ==
  /\ plast.op = "initiateRefund"
  /\ plast.code = "INVALID_AMOUNT"
  /\ RefundWellFormed(plast.request)
  /\ Len(refunds) = 1
  /\ refunds[1].paymentId = plast.paymentId
  /\ refundCounter = InitialRefundCounter + 1

\* the amounts of the refunds stored against paymentId among the first n
\* refunds, summed
RECURSIVE RefundedAmount(_, _, _)
RefundedAmount(rs, paymentId, n) ==
  IF n = 0 THEN 0
  ELSE RefundedAmount(rs, paymentId, n - 1)
       + ( IF rs[n].paymentId = paymentId THEN rs[n].amount ELSE 0 )

\* C29: for every payment the amounts of all refunds stored against it sum
\* to at most the payment's amount.
C29_RefundsWithinPayment ==
  \A i \in 1..Len(payments) :
     RefundedAmount(refunds, payments[i].paymentId, Len(refunds))
        <= payments[i].amount

\* C30: a successful cancelPayment reports refundAmount equal to the payment's
\* amount when the payment was PROCESSING at the time of the call, and 0 when
\* it was INITIATED.
C30_CancelRefundAmount ==
  [][ ( /\ plast'.op = "cancelPayment"
        /\ plast'.code = "ok" )
      => plast'.refundAmount =
            IF ThePayment(payments, plast'.paymentId).status = "PROCESSING"
            THEN ThePayment(payments, plast'.paymentId).amount
            ELSE 0 ]_vars
====
